---- MODULE Spec2Model ----
(***************************************************************************)
(* Model of SFTPClient/Client.py: the SFTP command layer over a pysftp     *)
(* connection.  The remote namespace, the local temporary directory and    *)
(* the local working directory are maps from paths (sequences of names)    *)
(* to entries; the history file is the sequence of words written to it.    *)
(* Every command is one action that runs the whole handler and records     *)
(* the calls it made on the connection and on the local file system.       *)
(***************************************************************************)
EXTENDS Integers, Sequences, FiniteSets, TLC

VARIABLES remote,   \* remote namespace: existing path -> entry
          local,    \* local temporary directory: existing path -> entry
          pre,      \* remote namespace when the last command started
          prelocal, \* local temporary directory when the last command started
          cmd,      \* the last command: [verb, args]
          result,   \* "none" (no command yet), "ok", or the exception raised
          trace,    \* calls made by the last command, in order
          cwd,      \* local working directory: existing path -> entry
          precwd,   \* local working directory when the last command started
          history,  \* content of HISTORY_FILE: words and line ends, in order
          prehistory, \* content of HISTORY_FILE when the last command started
          output,   \* what the last command returned: a sequence of words
          message,  \* the text of the exception the last command raised
          sessions, \* how many sessions have been constructed so far
          known_hosts, \* the known_hosts file: host name -> key of the host
          prehosts  \* the known_hosts file when the last command started

vars == <<remote, local, pre, prelocal, cmd, result, trace,
          cwd, precwd, history, prehistory, output, message, sessions,
          known_hosts, prehosts>>

----------------------------------------------------------------------------
(* Bounds *)

MaxNodes == 4    \* most entries in the remote namespace (and so its depth)
MaxLocked == 1   \* most entries whose mode is not the default
MaxHistory == 2  \* most records in the history file of a session
MaxSessions == 2 \* most sessions constructed one after the other

(* Entry names, in the order sorted() gives them *)
NameOrder == <<"a", "b">>
Names == {NameOrder[i] : i \in 1..Len(NameOrder)}

RECURSIVE PathsOfLen(_)
PathsOfLen(n) ==
    IF n = 0 THEN {<<>>}
    ELSE {Append(p, x) : p \in PathsOfLen(n - 1), x \in Names}


----------------------------------------------------------------------------
(* Paths *)

Parent(p) == SubSeq(p, 1, Len(p) - 1)
basename(p) == p[Len(p)]
IsPrefix(p, q) == Len(p) <= Len(q) /\ SubSeq(q, 1, Len(p)) = p
Under(p, q) == IsPrefix(p, q) /\ p # q           \* q is strictly below p
Children(fs, p) == {q \in DOMAIN fs : Len(q) = Len(p) + 1 /\ IsPrefix(p, q)}
Reverse(s) == [i \in 1..Len(s) |-> s[Len(s) + 1 - i]]
RemoveKey(fs, p) == [q \in (DOMAIN fs) \ {p} |-> fs[q]]
PutKey(fs, p, e) == [q \in (DOMAIN fs) \cup {p} |-> IF q = p THEN e ELSE fs[q]]

(* Modes: "rwx" full access, "r-x" no write, "---" no access at all *)
Modes == {"rwx", "r-x", "---"}
NoEntries == [q \in {} |-> [kind |-> "none", mode |-> "rwx", data |-> <<>>, mtime |-> ""]]

Entry(k, m, d, t) == [kind |-> k, mode |-> m, data |-> d, mtime |-> t]

----------------------------------------------------------------------------
(* The pysftp connection, as Client.py uses it.  A call either succeeds or  *)
(* raises; paramiko turns the server's status into IOError subclasses:      *)
(* "PermissionError", "FileNotFoundError", or the plain "Failure" IOError.  *)

(* the error of resolving p on the server, or "none" *)
StatErr(fs, p) ==
    IF \E i \in 1..(Len(p) - 1) :
          /\ SubSeq(p, 1, i) \in DOMAIN fs
          /\ fs[SubSeq(p, 1, i)].mode = "---"
    THEN "PermissionError"
    ELSE IF p \notin DOMAIN fs THEN "FileNotFoundError"
    ELSE "none"

(* the error of changing the directory that holds p, or "none" *)
WriteErr(fs, p) ==
    IF Len(p) <= 1 THEN "none"
    ELSE IF StatErr(fs, Parent(p)) # "none" THEN StatErr(fs, Parent(p))
    ELSE IF fs[Parent(p)].kind # "dir" THEN "FileNotFoundError"
    ELSE IF fs[Parent(p)].mode # "rwx" THEN "PermissionError"
    ELSE "none"

exists(fs, p) == StatErr(fs, p) = "none"
isdir(fs, p) == StatErr(fs, p) = "none" /\ fs[p].kind = "dir"
isfile(fs, p) == StatErr(fs, p) = "none" /\ fs[p].kind = "file"

(* names in directory p, sorted *)
listdir(fs, p) ==
    SelectSeq(NameOrder, LAMBDA x : Append(p, x) \in DOMAIN fs)

ListErr(fs, p) ==
    IF StatErr(fs, p) # "none" THEN StatErr(fs, p)
    ELSE IF fs[p].kind # "dir" THEN "FileNotFoundError"
    ELSE IF fs[p].mode = "---" THEN "PermissionError"
    ELSE "none"

(* The state a handler threads through its calls *)
Start(r, l) ==
    [remote |-> r, local |-> l, dirs |-> <<>>, flist |-> <<>>,
     dlist |-> <<>>, trace |-> <<>>, err |-> "none",
     cwd |-> NoEntries, history |-> <<>>, output |-> <<>>, msg |-> "",
     sessions |-> 1, hosts |-> <<>>]

(* the place of a path argument that a call does not have *)
NoPath == <<"?">>

Event(o, p, r) == [op |-> o, path |-> p, other |-> NoPath, res |-> r]
Log(st, o, p, r) == [st EXCEPT !.trace = Append(@, Event(o, p, r))]
(* a call that names a local and a remote path: the local one is `other' *)
LogBoth(st, o, p, q, r) ==
    [st EXCEPT !.trace = Append(@, [Event(o, p, r) EXCEPT !.other = q])]
Raise(st, e) == [st EXCEPT !.err = e]
RaiseMsg(st, e, m) == [st EXCEPT !.err = e, !.msg = m]
LogRaise(st, o, p, e) == Raise(Log(st, o, p, e), e)

(* connection.remove(p): unlink a file *)
RemoveErr(fs, p) ==
    IF StatErr(fs, p) # "none" THEN StatErr(fs, p)
    ELSE IF WriteErr(fs, p) # "none" THEN WriteErr(fs, p)
    ELSE IF fs[p].kind = "dir" THEN "Failure"
    ELSE "none"

ConnRemove(st, p) ==
    IF st.err # "none" THEN st
    ELSE IF RemoveErr(st.remote, p) # "none"
    THEN LogRaise(st, "remove", p, RemoveErr(st.remote, p))
    ELSE [Log(st, "remove", p, "ok") EXCEPT !.remote = RemoveKey(@, p)]

(* connection.rmdir(p): remove an empty directory *)
RmdirErr(fs, p) ==
    IF StatErr(fs, p) # "none" THEN StatErr(fs, p)
    ELSE IF WriteErr(fs, p) # "none" THEN WriteErr(fs, p)
    ELSE IF fs[p].kind # "dir" THEN "FileNotFoundError"
    ELSE IF Children(fs, p) # {} THEN "Failure"
    ELSE "none"

ConnRmdir(st, p) ==
    IF st.err # "none" THEN st
    ELSE IF RmdirErr(st.remote, p) # "none"
    THEN LogRaise(st, "rmdir", p, RmdirErr(st.remote, p))
    ELSE [Log(st, "rmdir", p, "ok") EXCEPT !.remote = RemoveKey(@, p)]

(* Callback, were a denied remove caught and passed over *)
CallbackSwallow(cb, st, p) ==
    CASE cb = "remove" ->
            IF RemoveErr(st.remote, p) = "PermissionError"
            THEN Log(st, "remove", p, "PermissionError")
            ELSE ConnRemove(st, p)
      [] cb = "dirs.append" ->
            [Log(st, "dirs.append", p, "ok") EXCEPT !.dirs = Append(@, p)]
      [] cb = "file_cb" -> [st EXCEPT !.flist = Append(@, p)]
      [] cb = "dir_cb" -> [st EXCEPT !.dlist = Append(@, p)]
      [] OTHER -> st

(* the callbacks Client.py and pysftp hand to walktree *)
Callback(cb, st, p) ==
    CASE cb = "remove" -> ConnRemove(st, p)
      [] cb = "dirs.append" ->
            [Log(st, "dirs.append", p, "ok") EXCEPT !.dirs = Append(@, p)]
      [] cb = "file_cb" -> [st EXCEPT !.flist = Append(@, p)]
      [] cb = "dir_cb" -> [st EXCEPT !.dlist = Append(@, p)]
      [] OTHER -> st

(* connection.walktree(path, fcallback, dcallback, ucallback): for every   *)
(* entry of listdir(path), in order: a directory is handed to dcallback    *)
(* and then walked, a file goes to fcallback, anything else to ucallback.  *)
RECURSIVE walktree(_, _, _)
RECURSIVE WalkEntries(_, _, _, _)
(* WalkEntries, were a directory handed to dcallback after its walk *)
WalkEntriesDirLast(st, path, entries, cbs) ==
    IF st.err # "none" \/ entries = <<>> THEN st
    ELSE LET pathname == Append(path, Head(entries))
             se == StatErr(st.remote, pathname)
             walked == walktree(st, pathname, cbs)
             st1 == IF se # "none" THEN LogRaise(st, "stat", pathname, se)
                    ELSE IF st.remote[pathname].kind = "dir"
                    THEN IF walked.err # "none" THEN walked
                         ELSE Callback(cbs.d, walked, pathname)
                    ELSE IF st.remote[pathname].kind = "file"
                    THEN Callback(cbs.f, st, pathname)
                    ELSE Callback(cbs.u, st, pathname)
         IN  WalkEntries(st1, path, Tail(entries), cbs)

walktree(st, path, cbs) ==
    IF st.err # "none" THEN st
    ELSE IF ListErr(st.remote, path) # "none"
    THEN LogRaise(st, "listdir", path, ListErr(st.remote, path))
    ELSE WalkEntries(Log(st, "listdir", path, "ok"), path,
                     listdir(st.remote, path), cbs)

WalkEntries(st, path, entries, cbs) ==
    IF st.err # "none" \/ entries = <<>> THEN st
    ELSE LET pathname == Append(path, Head(entries))
             se == StatErr(st.remote, pathname)
             st1 == IF se # "none" THEN LogRaise(st, "stat", pathname, se)
                    ELSE IF st.remote[pathname].kind = "dir"
                    THEN walktree(Callback(cbs.d, st, pathname), pathname, cbs)
                    ELSE IF st.remote[pathname].kind = "file"
                    THEN Callback(cbs.f, st, pathname)
                    ELSE Callback(cbs.u, st, pathname)
         IN  WalkEntries(st1, path, Tail(entries), cbs)

----------------------------------------------------------------------------
(* SFTP.rmdir *)

(* RmdirOrder, were the recorded directories removed as recorded *)
RmdirOrderForward(dirs) == dirs

(* the order in which the recorded directories are removed *)
RmdirOrder(dirs) == Reverse(dirs)

RECURSIVE RmdirEach(_, _)
RmdirEach(st, ds) ==
    IF st.err # "none" \/ ds = <<>> THEN st
    ELSE RmdirEach(ConnRmdir(st, Head(ds)), Tail(ds))

(* RmdirCallbacks, were the files left to the walk's caller *)
RmdirCallbacksNoFiles == [f |-> "skip", d |-> "dirs.append", u |-> "remove"]

(* fcallback, dcallback and ucallback of the walk in rmdir *)
RmdirCallbacks == [f |-> "remove", d |-> "dirs.append", u |-> "remove"]

(* RmdirBody, were the root not removed after its subdirectories *)
RmdirBodyKeepsRoot(st, args) ==
    IF Len(args) # 1
    THEN RaiseMsg(st, "TypeError", "rmdir() takes exactly one argument")
    ELSE IF isdir(st.remote, args[1])
    THEN LET walked == walktree(Log(st, "isdir", args[1], "ok"),
                                args[1], RmdirCallbacks)
         IN  RmdirEach(walked, RmdirOrder(walked.dirs))
    ELSE RaiseMsg(Log(st, "isdir", args[1], "ok"), "TypeError",
                  "Error: is not a directory")

(* RmdirBody, were the walk started without the isdir test *)
RmdirBodyUnchecked(st, args) ==
    IF Len(args) # 1
    THEN RaiseMsg(st, "TypeError", "rmdir() takes exactly one argument")
    ELSE LET walked == walktree(st, args[1], RmdirCallbacks)
             swept == RmdirEach(walked, RmdirOrder(walked.dirs))
         IN  ConnRmdir(swept, args[1])

(* RmdirBody, were the root recorded with its subdirectories *)
RmdirBodyRecordsRoot(st, args) ==
    IF Len(args) # 1
    THEN RaiseMsg(st, "TypeError", "rmdir() takes exactly one argument")
    ELSE IF isdir(st.remote, args[1])
    THEN LET tested == Log(st, "isdir", args[1], "ok")
             first == [Log(tested, "dirs.append", args[1], "ok") EXCEPT
                          !.dirs = <<args[1]>>]
             walked == walktree(first, args[1], RmdirCallbacks)
             swept == RmdirEach(walked, RmdirOrder(walked.dirs))
         IN  ConnRmdir(swept, args[1])
    ELSE RaiseMsg(Log(st, "isdir", args[1], "ok"), "TypeError",
                  "Error: is not a directory")

(* RmdirBody, were a path that is no directory passed over in silence *)
RmdirBodySilent(st, args) ==
    IF Len(args) # 1
    THEN RaiseMsg(st, "TypeError", "rmdir() takes exactly one argument")
    ELSE IF isdir(st.remote, args[1])
    THEN LET walked == walktree(Log(st, "isdir", args[1], "ok"),
                                args[1], RmdirCallbacks)
             swept == RmdirEach(walked, RmdirOrder(walked.dirs))
         IN  ConnRmdir(swept, args[1])
    ELSE Log(st, "isdir", args[1], "ok")

RmdirBody(st, args) ==
    IF Len(args) # 1
    THEN RaiseMsg(st, "TypeError", "rmdir() takes exactly one argument")
    ELSE IF isdir(st.remote, args[1])
    THEN LET walked == walktree(Log(st, "isdir", args[1], "ok"),
                                args[1], RmdirCallbacks)
             swept == RmdirEach(walked, RmdirOrder(walked.dirs))
         IN  ConnRmdir(swept, args[1])
    ELSE RaiseMsg(Log(st, "isdir", args[1], "ok"), "TypeError",
                  "Error: is not a directory")

----------------------------------------------------------------------------
(* The local file system under tempfile.gettempdir(), and the transfers    *)

Prefixes(p) == [i \in 1..Len(p) |-> SubSeq(p, 1, i)]     \* pysftp path_advance
InSeq(x, s) == \E i \in 1..Len(s) : s[i] = x
RemoveTree(fs, p) == [q \in {r \in DOMAIN fs : ~IsPrefix(p, r)} |-> fs[q]]
Rebase(p, from, to) == to \o SubSeq(p, Len(from) + 1, Len(p))

(* os.mkdir(p) *)
OsMkdirErr(lfs, p) ==
    IF p \in DOMAIN lfs THEN "FileExistsError"
    ELSE IF Len(p) > 1 /\ (Parent(p) \notin DOMAIN lfs \/ lfs[Parent(p)].kind # "dir")
    THEN "FileNotFoundError"
    ELSE "none"

OsMkdir(st, p) ==
    IF st.err # "none" THEN st
    ELSE IF OsMkdirErr(st.local, p) # "none"
    THEN LogRaise(st, "os.mkdir", p, OsMkdirErr(st.local, p))
    ELSE [Log(st, "os.mkdir", p, "ok") EXCEPT
            !.local = PutKey(@, p, Entry("dir", "rwx", <<>>, ""))]

(* shutil.rmtree(p) *)
rmtree(st, p) ==
    IF st.err # "none" THEN st
    ELSE IF p \notin DOMAIN st.local THEN LogRaise(st, "rmtree", p, "FileNotFoundError")
    ELSE [Log(st, "rmtree", p, "ok") EXCEPT !.local = RemoveTree(@, p)]

(* connection.mkdir(p) *)
MkdirErr(fs, p) ==
    IF WriteErr(fs, p) # "none" THEN WriteErr(fs, p)
    ELSE IF p \in DOMAIN fs THEN "Failure"
    ELSE "none"

ConnMkdir(st, p) ==
    IF st.err # "none" THEN st
    ELSE IF MkdirErr(st.remote, p) # "none"
    THEN LogRaise(st, "mkdir", p, MkdirErr(st.remote, p))
    ELSE [Log(st, "mkdir", p, "ok") EXCEPT
            !.remote = PutKey(@, p, Entry("dir", "rwx", <<>>, ""))]

(* the modification time a transfer leaves on the copy *)
Stamp(preserve_mtime, mtime) == IF preserve_mtime THEN mtime ELSE "now"

(* connection.get(remotepath, localpath, preserve_mtime): the local file   *)
(* is opened for writing before the remote one is opened for reading, so   *)
(* a refused read leaves an empty local file behind.                       *)
GetErr(fs, p) ==
    IF StatErr(fs, p) # "none" THEN StatErr(fs, p)
    ELSE IF fs[p].kind # "file" THEN "Failure"
    ELSE IF fs[p].mode = "---" THEN "PermissionError"
    ELSE "none"

(* open(localpath, "wb"): the directory that is to hold the file must be  *)
(* there, and the path must not be a directory                             *)
LocalOpenErr(lfs, p) ==
    IF Len(p) > 1 /\ (Parent(p) \notin DOMAIN lfs \/ lfs[Parent(p)].kind # "dir")
    THEN "FileNotFoundError"
    ELSE IF p \in DOMAIN lfs /\ lfs[p].kind = "dir" THEN "IsADirectoryError"
    ELSE "none"

ConnGet(st, remotepath, localpath, preserve_mtime) ==
    IF st.err # "none" THEN st
    ELSE IF StatErr(st.remote, remotepath) # "none"
    THEN LogRaise(st, "get", remotepath, StatErr(st.remote, remotepath))
    ELSE IF LocalOpenErr(st.local, localpath) # "none"
    THEN LogRaise(st, "get", remotepath, LocalOpenErr(st.local, localpath))
    ELSE IF GetErr(st.remote, remotepath) # "none"
    THEN [LogRaise(st, "get", remotepath, GetErr(st.remote, remotepath)) EXCEPT
            !.local = PutKey(@, localpath, Entry("file", "rwx", <<>>, "now"))]
    ELSE [Log(st, "get", remotepath, "ok") EXCEPT
            !.local = PutKey(@, localpath,
                Entry("file", "rwx", st.remote[remotepath].data,
                      Stamp(preserve_mtime, st.remote[remotepath].mtime)))]

(* connection.put(localpath, remotepath, preserve_mtime) *)
PutErr(fs, p) ==
    IF WriteErr(fs, p) # "none" THEN WriteErr(fs, p)
    ELSE IF p \in DOMAIN fs /\ fs[p].kind = "dir" THEN "Failure"
    ELSE IF p \in DOMAIN fs /\ fs[p].mode # "rwx" THEN "PermissionError"
    ELSE "none"

ConnPut(st, localpath, remotepath, preserve_mtime) ==
    IF st.err # "none" THEN st
    ELSE IF PutErr(st.remote, remotepath) # "none"
    THEN LogRaise(st, "put", remotepath, PutErr(st.remote, remotepath))
    ELSE [Log(st, "put", remotepath, "ok") EXCEPT
            !.remote = PutKey(@, remotepath,
                Entry("file", "rwx", st.local[localpath].data,
                      Stamp(preserve_mtime, st.local[localpath].mtime)))]

(* pysftp WTCallbacks: the walk only collects what it finds *)
WTCallbacks == [f |-> "file_cb", d |-> "dir_cb", u |-> "unk_cb"]

(* os.mkdir inside try/except OSError: pass, recording what it created *)
RECURSIVE MkdirsQuiet(_, _, _)
MkdirsQuiet(st, localdir, subdirs) ==
    IF subdirs = <<>> THEN st
    ELSE LET lp == localdir \o Head(subdirs)
             st1 == IF OsMkdirErr(st.local, lp) # "none" THEN st
                    ELSE [st EXCEPT
                            !.local = PutKey(@, lp, Entry("dir", "rwx", <<>>, "")),
                            !.dlist = Append(@, Head(subdirs))]
         IN  MkdirsQuiet(st1, localdir, Tail(subdirs))

RECURSIVE GetDirs(_, _, _)
GetDirs(st, localdir, dnames) ==
    IF dnames = <<>> THEN st
    ELSE GetDirs(MkdirsQuiet(st, localdir, Prefixes(Head(dnames))),
                 localdir, Tail(dnames))

(* os.mkdir of the directories of a file that the walk did not record *)
RECURSIVE MkdirsMissing(_, _, _)
MkdirsMissing(st, localdir, subdirs) ==
    IF st.err # "none" \/ subdirs = <<>> THEN st
    ELSE LET sub == Head(subdirs)
             st1 == IF InSeq(sub, st.dlist) THEN st
                    ELSE [OsMkdir(st, localdir \o sub) EXCEPT !.dlist = Append(@, sub)]
         IN  MkdirsMissing(st1, localdir, Tail(subdirs))

RECURSIVE GetFiles(_, _, _, _)
GetFiles(st, localdir, fnames, preserve_mtime) ==
    IF st.err # "none" \/ fnames = <<>> THEN st
    ELSE LET fname == Head(fnames)
             st1 == IF InSeq(Parent(fname), st.dlist) THEN st
                    ELSE MkdirsMissing(st, localdir, Prefixes(Parent(fname)))
             st2 == ConnGet(st1, fname, localdir \o fname, preserve_mtime)
         IN  GetFiles(st2, localdir, Tail(fnames), preserve_mtime)

(* connection.get_r(remotedir, localdir, preserve_mtime): walk remotedir,  *)
(* rebuild its directories under localdir by their full remote path, then  *)
(* download every file to localdir joined with its full remote path.       *)
get_r(st, remotedir, localdir, preserve_mtime) ==
    IF st.err # "none" THEN st
    ELSE LET called == [LogBoth(st, "get_r", remotedir, localdir, "ok") EXCEPT
                            !.flist = <<>>, !.dlist = <<>>]
             walked == walktree(called, remotedir, WTCallbacks)
             built == IF walked.err # "none" THEN walked
                      ELSE GetDirs(walked, localdir, walked.dlist)
             fetched == GetFiles(built, localdir, walked.flist, preserve_mtime)
         IN  Log(fetched, "get_r.return", remotedir,
                 IF fetched.err = "none" THEN "ok" ELSE fetched.err)

(* pysftp's walktree over the local directory localpath *)
LocalWalk(lfs, localpath) == walktree(Start(lfs, NoEntries), localpath, WTCallbacks)

RECURSIVE PutDirs(_, _, _, _)
PutDirs(st, localpath, remotepath, dnames) ==
    IF st.err # "none" \/ dnames = <<>> THEN st
    ELSE LET pth == Rebase(Head(dnames), localpath, remotepath)
             st1 == IF isdir(st.remote, pth) THEN st ELSE ConnMkdir(st, pth)
         IN  PutDirs(st1, localpath, remotepath, Tail(dnames))

RECURSIVE PutFiles(_, _, _, _, _)
PutFiles(st, localpath, remotepath, fnames, preserve_mtime) ==
    IF st.err # "none" \/ fnames = <<>> THEN st
    ELSE PutFiles(ConnPut(st, Head(fnames),
                          Rebase(Head(fnames), localpath, remotepath),
                          preserve_mtime),
                  localpath, remotepath, Tail(fnames), preserve_mtime)

(* connection.put_r(localpath, remotepath, preserve_mtime): chdir into     *)
(* localpath, walk it, make every directory found below remotepath, then   *)
(* upload every file found.  remotepath itself is not created.             *)
put_r(st, localpath, remotepath, preserve_mtime) ==
    IF st.err # "none" THEN st
    ELSE LET called == LogBoth(st, "put_r", remotepath, localpath, "ok")
             found == LocalWalk(st.local, localpath)
             made == IF found.err # "none" THEN Raise(called, "FileNotFoundError")
                     ELSE PutDirs(called, localpath, remotepath, found.dlist)
             sent == PutFiles(made, localpath, remotepath, found.flist, preserve_mtime)
         IN  Log(sent, "put_r.return", remotepath,
                 IF sent.err = "none" THEN "ok" ELSE sent.err)

----------------------------------------------------------------------------
(* SFTP.cp *)

(* CpBody, were the staging directory made before the destination test *)
CpBodyStagesFirst(st, args) ==
    IF Len(args) = 2
    THEN LET tmp_d == <<basename(args[1])>>
             made == OsMkdir(st, tmp_d)
         IN  IF made.err # "none" THEN made
             ELSE IF ~exists(made.remote, args[2])
             THEN LET got == get_r(Log(made, "exists", args[2], "ok"), args[1], tmp_d, TRUE)
                      sent == put_r(got, Append(tmp_d, basename(args[1])), args[2], TRUE)
                  IN  rmtree(sent, tmp_d)
             ELSE RaiseMsg(Log(made, "exists", args[2], "ok"), "IOError",
                           "mkdir: File exists")
    ELSE RaiseMsg(st, "TypeError", "cp() takes exactly two arguments")

(* CpBody, were an error of the download caught and the upload still run *)
CpBodyIgnoresDownloadError(st, args) ==
    IF Len(args) = 2
    THEN IF ~exists(st.remote, args[2])
         THEN LET tmp_d == <<basename(args[1])>>
                  made == OsMkdir(Log(st, "exists", args[2], "ok"), tmp_d)
                  got == get_r(made, args[1], tmp_d, TRUE)
                  sent == put_r([got EXCEPT !.err = made.err],
                                Append(tmp_d, basename(args[1])), args[2], TRUE)
              IN  rmtree(sent, tmp_d)
         ELSE RaiseMsg(Log(st, "exists", args[2], "ok"), "IOError",
                       "mkdir: File exists")
    ELSE RaiseMsg(st, "TypeError", "cp() takes exactly two arguments")

(* CpBody, were the staging directory removed before the upload *)
CpBodyCleansEarly(st, args) ==
    IF Len(args) = 2
    THEN IF ~exists(st.remote, args[2])
         THEN LET tmp_d == <<basename(args[1])>>
                  made == OsMkdir(Log(st, "exists", args[2], "ok"), tmp_d)
                  got == get_r(made, args[1], tmp_d, TRUE)
                  cleaned == rmtree(got, tmp_d)
              IN  put_r(cleaned, Append(tmp_d, basename(args[1])), args[2], TRUE)
         ELSE RaiseMsg(Log(st, "exists", args[2], "ok"), "IOError",
                       "mkdir: File exists")
    ELSE RaiseMsg(st, "TypeError", "cp() takes exactly two arguments")

(* cp, were a staging directory left by an earlier copy cleared first *)
CpBodyClearsStaging(st, args) ==
    IF Len(args) = 2
    THEN IF ~exists(st.remote, args[2])
         THEN LET tmp_d == <<basename(args[1])>>
                  tested == Log(st, "exists", args[2], "ok")
                  cleared == [tested EXCEPT !.local = RemoveTree(@, tmp_d)]
                  made == OsMkdir(cleared, tmp_d)
                  got == get_r(made, args[1], tmp_d, TRUE)
                  sent == put_r(got, Append(tmp_d, basename(args[1])), args[2], TRUE)
              IN  rmtree(sent, tmp_d)
         ELSE RaiseMsg(Log(st, "exists", args[2], "ok"), "IOError",
                       "mkdir: File exists")
    ELSE RaiseMsg(st, "TypeError", "cp() takes exactly two arguments")

CpBody(st, args) ==
    IF Len(args) = 2
    THEN IF ~exists(st.remote, args[2])
         THEN LET tmp_d == <<basename(args[1])>>
                  made == OsMkdir(Log(st, "exists", args[2], "ok"), tmp_d)
                  got == get_r(made, args[1], tmp_d, TRUE)
                  sent == put_r(got, Append(tmp_d, basename(args[1])), args[2], TRUE)
              IN  rmtree(sent, tmp_d)
         ELSE RaiseMsg(Log(st, "exists", args[2], "ok"), "IOError",
                       "mkdir: File exists")
    ELSE RaiseMsg(st, "TypeError", "cp() takes exactly two arguments")

----------------------------------------------------------------------------
(* The history file.  Its content is kept word by word: a record is the    *)
(* command's name, its arguments (joined by single spaces) and a line end. *)

NL == <<"\n">>
Word(name) == <<name>>

HistoryRecord(name, args) ==
    IF Len(args) > 0 THEN <<Word(name)>> \o args \o <<NL>>
    ELSE <<Word(name), NL>>

WriteHistory(st, name, args) ==
    [st EXCEPT !.history = @ \o HistoryRecord(name, args)]

(* log_history, were the file opened for writing rather than appending *)
log_historyOverwrites(st, name, args) ==
    [st EXCEPT !.history = HistoryRecord(name, args)]

(* log_history, were the record written both before and after the command *)
log_historyTwice(st, name, args) ==
    WriteHistory(WriteHistory(st, name, args), name, args)

(* @log_history: the record is appended before the command is run; the    *)
(* state that log_history gives is the one the command starts from         *)
log_history(st, name, args) == WriteHistory(st, name, args)

(* str.strip() of a text: line ends at either end are dropped *)
RECURSIVE Strip(_)
Strip(text) ==
    IF text = <<>> THEN text
    ELSE IF Head(text) = NL THEN Strip(Tail(text))
    ELSE IF text[Len(text)] = NL THEN Strip(SubSeq(text, 1, Len(text) - 1))
    ELSE text

(* the lines of a text, each a sequence of words *)
RECURSIVE Lines(_)
Lines(text) ==
    IF text = <<>> THEN <<>>
    ELSE LET ends == {i \in 1..Len(text) : text[i] = NL}
         IN  IF ends = {} THEN <<text>>
             ELSE LET k == CHOOSE i \in ends : \A j \in ends : i <= j
                  IN  <<SubSeq(text, 1, k - 1)>>
                          \o Lines(SubSeq(text, k + 1, Len(text)))

----------------------------------------------------------------------------
(* SFTP.ls, SFTP.chmod, SFTP.rm, SFTP.mkdir *)

(* connection.listdir(p): the names in p, or in the remote working         *)
(* directory when no path is given                                         *)
ConnListdir(st, p) ==
    LET e == IF p = <<>> THEN "none" ELSE ListErr(st.remote, p)
        names == listdir(st.remote, p)
    IN  IF st.err # "none" THEN st
        ELSE IF e # "none" THEN LogRaise(st, "listdir", p, e)
        ELSE [Log(st, "listdir", p, "ok") EXCEPT
                !.output = [i \in 1..Len(names) |-> Word(names[i])]]

(* LsBody, were the listing made before the arguments are counted *)
LsBodyListsFirst(st, args) ==
    LET listed == ConnListdir(st, IF Len(args) = 0 THEN <<>> ELSE args[1])
    IN  IF Len(args) <= 1 THEN listed
        ELSE RaiseMsg(listed, "TypeError", "ls() takes exactly zero or one arguments")

LsBody(st, args) ==
    IF Len(args) = 0 THEN ConnListdir(st, <<>>)
    ELSE IF Len(args) = 1 THEN ConnListdir(st, args[1])
    ELSE RaiseMsg(st, "TypeError", "ls() takes exactly zero or one arguments")

(* A mode is written digit by digit.  int() accepts decimal digits only     *)
(* and drops leading zeros; pysftp then reads the digits as octal.          *)
DecimalDigits == {"0", "1", "2", "3", "4", "5", "6", "7", "8", "9"}
OctalDigits == {"0", "1", "2", "3", "4", "5", "6", "7"}
IsInt(word) == word # <<>> /\ \A i \in 1..Len(word) : word[i] \in DecimalDigits
IsOctal(word) == \A i \in 1..Len(word) : word[i] \in OctalDigits

RECURSIVE int(_)
int(word) ==
    IF Len(word) > 1 /\ Head(word) = "0" THEN int(Tail(word)) ELSE word

(* the owner's access under a mode: the third octal digit from the right *)
OwnerAccess(mode) ==
    LET digit == IF Len(mode) >= 3 THEN mode[Len(mode) - 2] ELSE "0"
    IN  IF digit = "7" THEN "rwx"
        ELSE IF digit \in {"4", "5"} THEN "r-x"
        ELSE "---"

(* connection.chmod(p, mode) *)
ConnChmod(st, p, mode) ==
    IF st.err # "none" THEN st
    ELSE IF ~IsOctal(mode) THEN RaiseMsg(st, "ValueError", "invalid literal for int() with base 8")
    ELSE IF StatErr(st.remote, p) # "none"
    THEN LogRaise(st, "chmod", p, StatErr(st.remote, p))
    ELSE [Log(st, "chmod", p, "ok") EXCEPT
            !.remote = PutKey(@, p, [@[p] EXCEPT !.mode = OwnerAccess(mode)])]

ChmodBody(st, args) ==
    IF Len(args) = 2
    THEN IF IsInt(args[2]) THEN ConnChmod(st, args[1], int(args[2]))
         ELSE RaiseMsg(st, "ValueError", "invalid literal for int() with base 10")
    ELSE RaiseMsg(st, "TypeError", "chmod() takes exactly two arguments")

(* RmBody, were a path that is no file reported as not found *)
RmBodyNotFound(st, args) ==
    IF Len(args) # 1
    THEN RaiseMsg(st, "TypeError", "Usage: rm [filename | path/to/filename]")
    ELSE IF isfile(st.remote, args[1])
    THEN ConnRemove(Log(st, "isfile", args[1], "ok"), args[1])
    ELSE RaiseMsg(Log(st, "isfile", args[1], "ok"), "FileNotFoundError",
                  "No such file")

RmBody(st, args) ==
    IF Len(args) # 1
    THEN RaiseMsg(st, "TypeError", "Usage: rm [filename | path/to/filename]")
    ELSE IF isfile(st.remote, args[1])
    THEN ConnRemove(Log(st, "isfile", args[1], "ok"), args[1])
    ELSE RaiseMsg(Log(st, "isfile", args[1], "ok"), "TypeError",
                  "Usage: rm [filename | path/to/filename]")

(* connection.mkdir(p, mode): the mode is read as octal digits *)
ConnMkdirMode(st, p, mode) ==
    IF st.err # "none" THEN st
    ELSE IF ~ IsOctal(mode) THEN RaiseMsg(st, "ValueError", "invalid literal for int() with base 8")
    ELSE IF MkdirErr(st.remote, p) # "none"
    THEN Raise(LogBoth(st, "mkdir", p, mode, MkdirErr(st.remote, p)), MkdirErr(st.remote, p))
    ELSE [LogBoth(st, "mkdir", p, mode, "ok") EXCEPT
            !.remote = PutKey(@, p, Entry("dir", OwnerAccess(mode), <<>>, ""))]

(* connection.makedirs(p, mode): make p and every missing directory above  *)
(* it; an existing directory is left as it is                              *)
RECURSIVE makedirs(_, _, _)
makedirs(st, p, mode) ==
    IF st.err # "none" THEN st
    ELSE IF isdir(st.remote, p) THEN st
    ELSE IF isfile(st.remote, p)
    THEN RaiseMsg(st, "OSError", "a file with the same name as the remotedir already exists")
    ELSE LET above == IF Len(p) > 1 /\ ~isdir(st.remote, Parent(p))
                      THEN makedirs(st, Parent(p), mode) ELSE st
         IN  ConnMkdirMode(above, p, mode)

(* the mode mkdir asks for *)
Mode775 == <<"7", "7", "5">>

(* mkdir, were the single-directory call used for every path *)
MkdirBodySingleLevel(st, args) ==
    IF Len(args) # 1
    THEN RaiseMsg(st, "TypeError", "Usage: mkdir [dirname | path/to/dirname]")
    ELSE ConnMkdirMode(st, args[1], Mode775)

(* the call of connection.makedirs is recorded with its mode; the mkdir    *)
(* calls that follow it are the ones makedirs makes                        *)
MkdirBody(st, args) ==
    IF Len(args) # 1
    THEN RaiseMsg(st, "TypeError", "Usage: mkdir [dirname | path/to/dirname]")
    ELSE IF Len(args[1]) > 1
    THEN makedirs(LogBoth(st, "makedirs", args[1], Mode775, "ok"), args[1], Mode775)
    ELSE ConnMkdirMode(st, args[1], Mode775)

----------------------------------------------------------------------------
(* SFTP.get, SFTP.put: transfers between the remote namespace and the      *)
(* local working directory                                                 *)

DOWNLOADS_DIRECTORY == "downloads"

(* os.path.expanduser(p) *)
expanduser(p) ==
    IF p # <<>> /\ Head(p) = "~" THEN <<"home">> \o Tail(p) ELSE p

(* a call whose local path is resolved in the working directory: the       *)
(* transfer sees the working directory where cp's transfers see the        *)
(* temporary one                                                           *)
OnCwd(st) == [st EXCEPT !.local = st.cwd, !.cwd = st.local]

(* a get that downloads without testing the remote path first *)
GetBodyUntested(st, args) ==
    IF Len(args) < 1 \/ Len(args) > 2
    THEN RaiseMsg(st, "TypeError", "get() takes 1 or 2 arguments")
    ELSE LET localpath == IF Len(args) = 1 THEN <<DOWNLOADS_DIRECTORY, basename(args[1])>>
                          ELSE expanduser(args[2])
         IN  OnCwd(ConnGet(OnCwd(st), args[1], localpath, FALSE))

GetBody(st, args) ==
    IF Len(args) < 1 \/ Len(args) > 2
    THEN RaiseMsg(st, "TypeError", "get() takes 1 or 2 arguments")
    ELSE IF isfile(st.remote, args[1])
    THEN LET tested == Log(st, "isfile", args[1], "ok")
             remote_file == basename(args[1])
             localpath == IF Len(args) = 1 THEN <<DOWNLOADS_DIRECTORY, remote_file>>
                          ELSE expanduser(args[2])
         IN  OnCwd(ConnGet(OnCwd(tested), args[1], localpath, FALSE))
    ELSE RaiseMsg(Log(st, "isfile", args[1], "ok"), "IOError",
                  "The remote path is not a file")

(* try: connection.mkdir(target) except IOError: pass *)
MkdirTry(st, target) ==
    IF MkdirErr(st.remote, target) # "none"
    THEN Log(st, "mkdir", target, MkdirErr(st.remote, target))
    ELSE ConnMkdir(st, target)

OsIsFile(lfs, p) == p \in DOMAIN lfs /\ lfs[p].kind = "file"
OsIsDir(lfs, p) == p \in DOMAIN lfs /\ lfs[p].kind = "dir"

(* the flag of put that names the remote directory to upload into *)
TargetFlag == <<"-t">>

(* the loop of put over its arguments, from the i-th on, with the target   *)
(* named so far (NoPath for None)                                          *)
RECURSIVE PutLoop(_, _, _, _)
PutLoop(st, args, i, target) ==
    IF st.err # "none" \/ i > Len(args) THEN st
    ELSE LET arg == expanduser(args[i])
         IN  IF arg = TargetFlag
             THEN IF i + 1 > Len(args) THEN RaiseMsg(st, "StopIteration", "")
                  ELSE PutLoop(st, args, i + 2, args[i + 1])
             ELSE IF OsIsFile(st.cwd, arg)
             THEN IF target # NoPath
                  THEN PutLoop(OnCwd(ConnPut(OnCwd(MkdirTry(st, target)), arg,
                                             Append(target, basename(arg)), TRUE)),
                               args, i + 1, target)
                  ELSE PutLoop(OnCwd(ConnPut(OnCwd(st), arg, <<basename(arg)>>, TRUE)),
                               args, i + 1, target)
             ELSE IF OsIsDir(st.cwd, arg)
             THEN RaiseMsg(st, "IOError", "Cannot put directories")
             ELSE RaiseMsg(st, "FileNotFoundError", "couldn't find the requested file")

(* a put that passes over what is not a local file and goes on *)
PutBodySkips(st, args) ==
    LET RECURSIVE Kept(_)
        Kept(i) ==
            IF i = 0 THEN <<>>
            ELSE IF \/ args[i] = TargetFlag
                    \/ (i > 1 /\ args[i - 1] = TargetFlag)
                    \/ OsIsFile(st.cwd, args[i])
            THEN Append(Kept(i - 1), args[i])
            ELSE Kept(i - 1)
    IN  PutLoop(st, Kept(Len(args)), 1, NoPath)

PutBody(st, args) == PutLoop(st, args, 1, NoPath)

----------------------------------------------------------------------------
(* SFTP.history, SFTP.ping, SFTP.__init__ *)

(* history, were it a logged verb *)
HistoryBodyLogged(st, args) ==
    IF Len(args) # 0
    THEN RaiseMsg(WriteHistory(st, "history", args), "TypeError",
                  "history takes exactly zero arguments")
    ELSE [WriteHistory(st, "history", args) EXCEPT !.output = Strip(st.history)]

HistoryBody(st, args) ==
    IF Len(args) # 0
    THEN RaiseMsg(st, "TypeError", "history takes exactly zero arguments")
    ELSE [st EXCEPT !.output = Strip(st.history)]

PingBody(st) ==
    LET listed == ConnListdir(st, <<>>)
    IN  IF listed.err # "none" THEN listed
        ELSE [listed EXCEPT
                !.output = IF listed.output # <<>> THEN <<Word("pong")>>
                           ELSE <<Word("nothing"), Word("happened")>>]

(* The hosts a session is opened to and the keys they show.  A request to  *)
(* connect says which host, whether a password was given, whether          *)
(* ~/.ssh/id_rsa is a file, the key the server shows, and whether the      *)
(* server lets the client in.                                              *)
Hosts == {"h1", "h2", "h3"}
Keys == {"k1", "k2"}
Requests ==
    [host : Hosts, password : BOOLEAN, keyfile : BOOLEAN, serverkey : Keys,
     accepted : BOOLEAN]

(* known_hosts after the first session, which was opened to h1: the file   *)
(* is absent or holds entries; the client never writes it with no entry    *)
KnownHosts0 == [h \in {"h1"} |-> "k1"]

(* cnopts.hostkeys.lookup(hostname) is not None *)
Known(hosts, h) == h \in DOMAIN hosts

(* hostkeys.add(hostname, ...) *)
AddHostKey(hosts, h, k) == [x \in (DOMAIN hosts) \cup {h} |-> IF x = h THEN k ELSE hosts[x]]

(* the words that say how a connection is made *)
Checking == <<"hostkeys">>
NoChecking == <<"None">>
AuthOf(req) == IF req.password THEN "password" ELSE "private_key"

(* pysftp.Connection of the arguments: with host keys to check against, the key the *)
(* server shows must be the one on file                                    *)
ConnectErr(hosts, req, checking) ==
    IF checking /\ hosts[req.host] # req.serverkey THEN "SSHException"
    ELSE IF ~ req.accepted THEN "SSHException"
    ELSE "none"

ConnectMsg(hosts, req, checking) ==
    IF checking /\ hosts[req.host] # req.serverkey
    THEN "Host key for server does not match"
    ELSE "Authentication failed"

(* initiate_connection, were the key of a new host put on file before the  *)
(* connection is made                                                      *)
initiate_connectionSavesFirst(st, req) ==
    LET known == Known(st.hosts, req.host)
        looked == Log(st, "hostkeys.lookup", <<req.host>>, IF known THEN "found" ELSE "None")
        saved == IF known THEN looked
                 ELSE [Log(LogBoth(looked, "hostkeys.add", <<req.host>>, <<req.serverkey>>, "ok"),
                           "hostkeys.save", <<req.host>>, "ok")
                       EXCEPT !.hosts = AddHostKey(@, req.host, req.serverkey)]
    IN  IF ~ req.password /\ ~ req.keyfile
        THEN RaiseMsg(saved, "BadAuthenticationType",
                      "No supported authentication methods available")
        ELSE LET e == ConnectErr(st.hosts, req, known)
                 called == LogBoth(saved, "Connection", <<req.host>>,
                                   (IF known THEN Checking ELSE NoChecking) \o <<AuthOf(req)>>,
                                   IF e = "none" THEN "ok" ELSE e)
             IN  IF e # "none" THEN RaiseMsg(called, e, ConnectMsg(st.hosts, req, known))
                 ELSE called

(* initiate_connection: look the host up, choose how to authenticate,      *)
(* connect, and put the key of a host that was not on file on file         *)
initiate_connection(st, req) ==
    LET known == Known(st.hosts, req.host)
        looked == Log(st, "hostkeys.lookup", <<req.host>>, IF known THEN "found" ELSE "None")
    IN  IF ~ req.password /\ ~ req.keyfile
        THEN RaiseMsg(looked, "BadAuthenticationType",
                      "No supported authentication methods available")
        ELSE LET e == ConnectErr(st.hosts, req, known)
                 called == LogBoth(looked, "Connection", <<req.host>>,
                                   (IF known THEN Checking ELSE NoChecking) \o <<AuthOf(req)>>,
                                   IF e = "none" THEN "ok" ELSE e)
             IN  IF e # "none" THEN RaiseMsg(called, e, ConnectMsg(st.hosts, req, known))
                 ELSE IF known THEN called
                 ELSE [Log(LogBoth(called, "hostkeys.add", <<req.host>>, <<req.serverkey>>, "ok"),
                           "hostkeys.save", <<req.host>>, "ok")
                       EXCEPT !.hosts = AddHostKey(@, req.host, req.serverkey)]

(* __init__, were the history file of the last session kept *)
InitBodyKeepsHistory(st, req) ==
    LET connected == initiate_connection(st, req)
    IN  IF connected.err # "none" THEN connected
        ELSE [connected EXCEPT
                !.cwd = IF <<DOWNLOADS_DIRECTORY>> \in DOMAIN @ THEN @
                        ELSE PutKey(@, <<DOWNLOADS_DIRECTORY>>, Entry("dir", "rwx", <<>>, "")),
                !.sessions = @ + 1]

(* __init__: connect, make sure of the downloads directory, remove the    *)
(* history file                                                            *)
InitBody(st, req) ==
    LET connected == initiate_connection(st, req)
    IN  IF connected.err # "none" THEN connected
        ELSE [connected EXCEPT
                !.cwd = IF <<DOWNLOADS_DIRECTORY>> \in DOMAIN @ THEN @
                        ELSE PutKey(@, <<DOWNLOADS_DIRECTORY>>, Entry("dir", "rwx", <<>>, "")),
                !.history = <<>>,
                !.sessions = @ + 1]

----------------------------------------------------------------------------
(* Commands: one action per handler, run to its return or its exception *)

(* the state a command starts from *)
Begin ==
    [Start(remote, local) EXCEPT
        !.cwd = cwd, !.history = history, !.sessions = sessions,
        !.hosts = known_hosts]

Finish(verb, args, st) ==
    /\ remote' = st.remote
    /\ local' = st.local
    /\ pre' = remote
    /\ prelocal' = local
    /\ cmd' = [verb |-> verb, args |-> args]
    /\ result' = IF st.err = "none" THEN "ok" ELSE st.err
    /\ trace' = st.trace
    /\ cwd' = st.cwd
    /\ precwd' = cwd
    /\ history' = st.history
    /\ prehistory' = history
    /\ output' = st.output
    /\ message' = st.msg
    /\ sessions' = st.sessions
    /\ known_hosts' = st.hosts
    /\ prehosts' = known_hosts

(* paths a user names: every existing entry, and the top-level names *)
ArgPaths == (DOMAIN remote) \cup PathsOfLen(1)

RmdirArgs == {<<>>} \cup {<<p>> : p \in ArgPaths} \cup {<<p, p>> : p \in PathsOfLen(1)}

Rmdir ==
    \E args \in RmdirArgs :
        Finish("rmdir", args, RmdirBody(log_history(Begin, "rmdir", args), args))

CpArgs ==
    {<<s, d>> : s \in ArgPaths, d \in PathsOfLen(1)}
        \cup {<<s>> : s \in PathsOfLen(1)} \cup {<<s, s, s>> : s \in PathsOfLen(1)}

(* the first command of a session *)
RmdirFirst == history = <<>> /\ Rmdir

(* the command just run, given once more *)
RmdirAgain ==
    /\ cmd.verb = "rmdir"
    /\ history = HistoryRecord("rmdir", cmd.args)
    /\ Finish("rmdir", cmd.args, RmdirBody(log_history(Begin, "rmdir", cmd.args), cmd.args))

Cp ==
    \E args \in CpArgs :
        Finish("cp", args, CpBody(Begin, args))

----------------------------------------------------------------------------
(* A session: the commands a user gives one after the other, then the      *)
(* start of the next session in the same working directory.                *)

(* words a user types: two remote paths, a mode, local paths, the flag *)
PathA == <<"a">>
PathAA == <<"a", "a">>
PathB == <<"b">>
Mode000 == <<"0", "0", "0">>
LocalDir == <<"d">>
LocalMissing == <<"x">>

LsArgs == {<<>>, <<PathA>>, <<PathA, PathA>>}
ChmodArgs == {<<PathA, Mode000>>, <<PathA>>, <<PathA, Mode000, Mode000>>}
SessionRmdirArgs == {<<PathA>>, <<>>, <<PathA, PathA>>}
RmArgs == {<<PathA>>, <<>>, <<PathA, PathA>>}
MkdirArgs == {<<PathA>>, <<PathAA>>, <<>>, <<PathA, PathA>>}
GetArgs == {<<PathA>>, <<PathA, LocalMissing>>, <<>>, <<PathA, PathA, PathA>>}
PutArgs ==
    {<<>>, <<PathA>>, <<TargetFlag>>, <<TargetFlag, PathB, PathA>>,
     <<PathA, TargetFlag>>, <<LocalDir>>, <<LocalMissing>>}
SessionCpArgs == {<<PathA, PathB>>, <<PathA>>, <<PathA, PathB, PathB>>}
HistoryArgs == {<<>>, <<PathA>>}

(* the first session is followed command by command; of the sessions      *)
(* started after it, only what history and ping return is followed         *)
Running == sessions = 1
Records(text) == Cardinality({i \in 1..Len(text) : text[i] = NL})
CanLog == Running /\ Records(history) < MaxHistory

Ls ==
    /\ CanLog
    /\ \E args \in LsArgs :
          Finish("ls", args, LsBody(log_history(Begin, "ls", args), args))

Chmod ==
    /\ CanLog
    /\ \E args \in ChmodArgs :
          Finish("chmod", args, ChmodBody(log_history(Begin, "chmod", args), args))

SessionRmdir ==
    /\ CanLog
    /\ \E args \in SessionRmdirArgs :
          Finish("rmdir", args, RmdirBody(log_history(Begin, "rmdir", args), args))

Rm ==
    /\ CanLog
    /\ \E args \in RmArgs :
          Finish("rm", args, RmBody(log_history(Begin, "rm", args), args))

Mkdir ==
    /\ CanLog
    /\ \E args \in MkdirArgs :
          Finish("mkdir", args, MkdirBody(log_history(Begin, "mkdir", args), args))

Get ==
    /\ CanLog
    /\ \E args \in GetArgs :
          Finish("get", args, GetBody(log_history(Begin, "get", args), args))

Put ==
    /\ CanLog
    /\ \E args \in PutArgs :
          Finish("put", args, PutBody(log_history(Begin, "put", args), args))

(* cp, ping and history do not carry @log_history *)
SessionCp ==
    /\ Running
    /\ \E args \in SessionCpArgs : Finish("cp", args, CpBody(Begin, args))

Ping == Finish("ping", <<>>, PingBody(Begin))

History ==
    \E args \in HistoryArgs : Finish("history", args, HistoryBody(Begin, args))

(* the requests of the sessions that follow the first: to the same host,   *)
(* with a password, the server showing the key it showed before            *)
SessionRequests ==
    {req \in Requests : req.host = "h1" /\ req.password /\ ~ req.keyfile
                                       /\ req.serverkey = "k1"}

NewSession ==
    /\ sessions < MaxSessions
    /\ \E req \in SessionRequests :
          Finish("__init__", <<<<req.host>>>>, InitBody(Begin, req))

(* sessions opened one after the other, to any host *)
Connect ==
    /\ sessions <= MaxSessions
    /\ \E req \in Requests :
          Finish("__init__", <<<<req.host>>>>, InitBody(Begin, req))

----------------------------------------------------------------------------
(* Transfers: a session of put, get and chmod, with the argument lists     *)
(* that tell the places of an upload and of a download apart.              *)

PathBA == <<"b", "a">>
PathBB == <<"b", "b">>
LocalNested == <<"n", "x">>

TransferPutArgs ==
    {<<PathA>>, <<PathA, PathB>>,
     <<TargetFlag, PathB, PathA>>,
     <<PathA, TargetFlag, PathB, PathB>>,
     <<TargetFlag, PathB, PathA, TargetFlag, PathBB, PathB>>,
     <<TargetFlag, PathAA, PathA>>,
     <<PathA, LocalMissing, PathB>>, <<PathA, LocalDir, PathB>>,
     <<LocalMissing, PathA>>, <<TargetFlag, PathB, LocalDir, PathA>>}

TransferGetArgs ==
    {<<PathA>>, <<PathB>>, <<PathBA>>, <<PathA, LocalMissing>>,
     <<PathA, LocalNested>>, <<PathBA, LocalDir>>}

TransferPut ==
    /\ CanLog
    /\ \E args \in TransferPutArgs :
          Finish("put", args, PutBody(log_history(Begin, "put", args), args))

TransferGet ==
    /\ CanLog
    /\ \E args \in TransferGetArgs :
          Finish("get", args, GetBody(log_history(Begin, "get", args), args))

TransferChmod ==
    /\ CanLog
    /\ \E args \in {<<PathA, Mode000>>} :
          Finish("chmod", args, ChmodBody(log_history(Begin, "chmod", args), args))

----------------------------------------------------------------------------
(* The remote host outside the client: what the test fixtures do through   *)
(* connection.mkdir, connection.execute("touch ...") and connection.chmod  *)
(* before the commands under test run.                                     *)

NoCmd == [verb |-> "none", args |-> <<>>]

Dirs(fs) == {q \in DOMAIN fs : fs[q].kind = "dir"}
(* the fixtures fill a directory name by name: its next entry takes the   *)
(* first name that is free in it                                          *)
FreeNames(fs, q) == SelectSeq(NameOrder, LAMBDA x : Append(q, x) \notin DOMAIN fs)
NewPaths ==
    {Append(q, Head(FreeNames(remote, q))) :
        q \in {d \in Dirs(remote) \cup {<<>>} : FreeNames(remote, d) # <<>>}}
CanAdd == Cardinality(DOMAIN remote) < MaxNodes

Settle(r) ==
    /\ cmd = NoCmd
    /\ remote' = r
    /\ pre' = r
    /\ prelocal' = local
    /\ cmd' = NoCmd
    /\ result' = "none"
    /\ trace' = <<>>
    /\ precwd' = cwd
    /\ prehistory' = history
    /\ output' = <<>>
    /\ message' = ""
    /\ prehosts' = known_hosts
    /\ UNCHANGED <<local, cwd, history, sessions, known_hosts>>

HostMkdir ==
    \E p \in NewPaths :
        /\ CanAdd
        /\ Settle(PutKey(remote, p, Entry("dir", "rwx", <<>>, "")))

(* a new file holds data of its own, written at an earlier time *)
HostTouch ==
    \E p \in NewPaths :
        /\ CanAdd
        /\ Settle(PutKey(remote, p, Entry("file", "rwx", p, "old")))

HostMkfifo ==
    \E p \in NewPaths :
        /\ CanAdd
        /\ Settle(PutKey(remote, p, Entry("other", "rwx", <<>>, "")))

Locked(fs) == {q \in DOMAIN fs : fs[q].mode # "rwx"}

HostChmod(targets, m) ==
    \E p \in targets :
        /\ remote[p].mode = "rwx"
        /\ Cardinality(Locked(remote)) < MaxLocked
        /\ Settle(PutKey(remote, p, [remote[p] EXCEPT !.mode = m]))

HostReadOnlyDir == HostChmod(Dirs(remote), "r-x")
HostLockDir == HostChmod(Dirs(remote), "---")
HostLockFile == HostChmod({q \in DOMAIN remote : remote[q].kind = "file"}, "---")

----------------------------------------------------------------------------
(* The working directory the client is started in: two files, a            *)
(* directory, and the downloads directory that the constructor makes sure  *)
(* of.                                                                     *)
Cwd0 ==
    [q \in {<<"a">>, <<"b">>, <<"d">>, <<DOWNLOADS_DIRECTORY>>} |->
        IF q = <<"a">> THEN Entry("file", "rwx", <<"local">>, "old")
        ELSE IF q = <<"b">> THEN Entry("file", "rwx", <<"local", "b">>, "old")
        ELSE Entry("dir", "rwx", <<>>, "")]

Init ==
    /\ remote = NoEntries
    /\ local = NoEntries
    /\ pre = NoEntries
    /\ prelocal = NoEntries
    /\ cmd = NoCmd
    /\ result = "none"
    /\ trace = <<>>
    /\ cwd = Cwd0
    /\ precwd = Cwd0
    /\ history = <<>>
    /\ prehistory = <<>>
    /\ output = <<>>
    /\ message = ""
    /\ sessions = 1
    /\ known_hosts = KnownHosts0
    /\ prehosts = KnownHosts0

NextRm ==
    \/ HostMkdir \/ HostTouch \/ HostMkfifo \/ HostReadOnlyDir \/ HostLockDir
    \/ RmdirFirst \/ RmdirAgain
SpecRm == Init /\ [][NextRm]_vars

NextCp ==
    \/ HostMkdir \/ HostTouch \/ HostLockDir \/ HostLockFile
    \/ Cp
SpecCp == Init /\ [][NextCp]_vars

NextSession ==
    \/ Ls \/ Chmod \/ SessionRmdir \/ Rm \/ Mkdir \/ Get \/ Put
    \/ SessionCp \/ Ping \/ History \/ NewSession
SpecSession == Init /\ [][NextSession]_vars

NextConnect == Connect
SpecConnect == Init /\ [][NextConnect]_vars

NextTransfer == TransferPut \/ TransferGet \/ TransferChmod
SpecTransfer == Init /\ [][NextTransfer]_vars

----------------------------------------------------------------------------
(* Properties of rmdir *)

IsRmdir1 == cmd.verb = "rmdir" /\ Len(cmd.args) = 1
Root == cmd.args[1]
IsDelete(e) == e.op \in {"remove", "rmdir"}
Paths(events) == [i \in 1..Len(events) |-> events[i].path]
RmdirCalls == SelectSeq(trace, LAMBDA e : e.op = "rmdir")
Recorded == SelectSeq(trace, LAMBDA e : e.op = "dirs.append")
Count(events, p) == Cardinality({i \in 1..Len(events) : events[i].path = p})

(* the remote namespace just before the i-th call of the last command *)
RECURSIVE FsBefore(_)
FsBefore(i) ==
    IF i <= 1 THEN pre
    ELSE IF IsDelete(trace[i - 1]) /\ trace[i - 1].res = "ok"
    THEN RemoveKey(FsBefore(i - 1), trace[i - 1].path)
    ELSE FsBefore(i - 1)

(* C1: when rmdir([T]) returns without raising, T and every file and      *)
(* directory that was under T are absent from the remote namespace.       *)
C1_TreeGone ==
    (IsRmdir1 /\ result = "ok") =>
        \A q \in (DOMAIN pre) \cup (DOMAIN remote) :
            IsPrefix(Root, q) => q \notin DOMAIN remote

C1_Witness ==
    /\ IsRmdir1 /\ result = "ok"
    /\ \E f, d \in DOMAIN pre :
          /\ Under(Root, d) /\ pre[d].kind = "dir"
          /\ Under(d, f) /\ pre[f].kind = "file"
    /\ \E g \in DOMAIN pre : Parent(g) = Root /\ pre[g].kind # "dir"

(* C2: an rmdir that runs to its end passes every directory of the tree,  *)
(* the root included, to connection.rmdir exactly once; and in every      *)
(* rmdir, aborted or not, no directory is passed twice and each one holds *)
(* no file and no subdirectory at the moment it is passed.                *)
C2_EachDirOnceWhenEmpty ==
    cmd.verb = "rmdir" =>
        /\ \A i \in 1..Len(trace) :
              trace[i].op = "rmdir" =>
                  /\ Children(FsBefore(i), trace[i].path) = {}
                  /\ Count(RmdirCalls, trace[i].path) = 1
        /\ result = "ok" =>
              \A d \in Dirs(pre) : IsPrefix(Root, d) => Count(RmdirCalls, d) = 1

C2_Witness ==
    /\ IsRmdir1 /\ result = "ok"
    /\ Len(RmdirCalls) >= 3
    /\ \E f \in DOMAIN pre : Under(Root, f) /\ pre[f].kind = "file"

(* C3: rmdir([p]) where p does not exist or is not a directory raises     *)
(* TypeError and deletes nothing: the remote namespace is as before.      *)
C3_NotADirectory ==
    (IsRmdir1 /\ (Root \notin DOMAIN pre \/ pre[Root].kind # "dir")) =>
        /\ result = "TypeError"
        /\ remote = pre
        /\ \A i \in 1..Len(trace) : ~IsDelete(trace[i])

C3_Witness ==
    /\ IsRmdir1 /\ result = "TypeError"
    /\ Root \in DOMAIN pre /\ pre[Root].kind = "file"

(* C9: when the server denies a delete during rmdir, PermissionError      *)
(* reaches the caller, that denied call is the last one made, everything  *)
(* deleted before it stays deleted and nothing else changes, and the root *)
(* still exists.                                                          *)
DeniedDelete(i) == IsDelete(trace[i]) /\ trace[i].res = "PermissionError"

C9_PermissionErrorPropagates ==
    cmd.verb = "rmdir" =>
        \A i \in 1..Len(trace) :
            DeniedDelete(i) =>
                /\ result = "PermissionError"
                /\ i = Len(trace)
                /\ remote = FsBefore(i)
                /\ Root \in DOMAIN remote

C9_Witness ==
    /\ IsRmdir1
    /\ \E i \in 1..Len(trace) : DeniedDelete(i)
    /\ \E j \in 1..Len(trace) : IsDelete(trace[j]) /\ trace[j].res = "ok"

(* C10: rmdir removes the recorded subdirectories only after the walk has *)
(* ended, in exactly the reverse of the order the walk recorded them, and *)
(* the root last.                                                         *)
C10_ReverseOrderRootLast ==
    IsRmdir1 =>
        LET expected == Reverse(Paths(Recorded)) \o <<Root>>
            removed == Paths(RmdirCalls)
        IN  /\ Len(removed) <= Len(expected)
            /\ removed = SubSeq(expected, 1, Len(removed))
            /\ result = "ok" => removed = expected
            /\ \A i, j \in 1..Len(trace) :
                  (trace[i].op = "rmdir" /\ i < j) => trace[j].op = "rmdir"

C10_Witness ==
    /\ IsRmdir1 /\ result = "ok"
    /\ Len(Recorded) >= 2
    /\ \E i, j \in 1..Len(Recorded) : Under(Recorded[i].path, Recorded[j].path)

(* the entries directly inside d that the walk hands to remove *)
FilesIn(fs, d) == {q \in Children(fs, d) : fs[q].kind # "dir"}
RemovesIn(d) ==
    {j \in 1..Len(trace) : trace[j].op = "remove" /\ Parent(trace[j].path) = d}

(* C11 as stated: within rmdir, every deletion of a file directly inside   *)
(* a subdirectory d comes before d is recorded in the list of directories  *)
(* to remove.                                                              *)
C11_FilesDeletedBeforeQueued ==
    IsRmdir1 =>
        \A i \in 1..Len(trace) :
            trace[i].op = "dirs.append" =>
                \A j \in RemovesIn(trace[i].path) : j < i

(* C11, amended: within rmdir, every subdirectory d is recorded in the     *)
(* list of directories to remove before any file directly inside d is      *)
(* deleted, and by the time d itself is removed every file that was        *)
(* directly inside d has been deleted.                                     *)
C11_QueuedThenEmptiedThenRemoved ==
    IsRmdir1 =>
        \A i \in 1..Len(trace) :
            trace[i].op = "dirs.append" =>
                LET d == trace[i].path
                IN  /\ \A j \in RemovesIn(d) : i < j
                    /\ \A k \in 1..Len(trace) :
                          (trace[k].op = "rmdir" /\ trace[k].path = d) =>
                              \A q \in FilesIn(pre, d) :
                                  \E j \in 1..(k - 1) :
                                      trace[j] = Event("remove", q, "ok")

C11_Witness ==
    /\ IsRmdir1
    /\ result = "ok"
    /\ \E i \in 1..Len(trace) :
          /\ trace[i].op = "dirs.append"
          /\ \E q \in FilesIn(pre, trace[i].path) : pre[q].kind = "file"

(* C17: rmdir of a tree that an rmdir has just removed does not pass in    *)
(* silence: given again after it returned, the same rmdir raises the        *)
(* TypeError of a path that is not a directory and changes nothing on the   *)
(* remote side.                                                             *)
C17_SecondRmdirFails ==
    [][(IsRmdir1 /\ result = "ok" /\ cmd' = cmd) =>
          /\ result' = "TypeError"
          /\ message' = "Error: is not a directory"
          /\ remote' = remote]_vars

(* the second rmdir of a nested directory that the first one removed *)
C17_Witness ==
    /\ IsRmdir1
    /\ Records(history) = 2
    /\ Len(Root) = 2
    /\ Root \notin DOMAIN pre
    /\ result = "TypeError"

(* C27: rmdir([p]) deletes nothing but p and what is under p: every       *)
(* remote entry that is neither p nor under p is there unchanged after the *)
(* command, whether it returned or raised part-way, no entry is new, every *)
(* delete call names p or a path under p, the root p is not among the      *)
(* recorded subdirectories and is the object of at most one rmdir call.    *)
C27_OnlyUnderRoot ==
    IsRmdir1 =>
        /\ \A q \in DOMAIN pre :
              ~ IsPrefix(Root, q) => (q \in DOMAIN remote /\ remote[q] = pre[q])
        /\ DOMAIN remote \subseteq DOMAIN pre
        /\ \A i \in 1..Len(trace) : IsDelete(trace[i]) => IsPrefix(Root, trace[i].path)
        /\ Count(Recorded, Root) = 0
        /\ \A i \in 1..Len(Recorded) : Under(Root, Recorded[i].path)
        /\ Count(RmdirCalls, Root) <= 1

(* an rmdir that raised part-way, with a directory beside its root *)
C27_Witness ==
    /\ IsRmdir1 /\ result \notin {"ok", "TypeError"}
    /\ \E i \in 1..Len(trace) : IsDelete(trace[i]) /\ trace[i].res = "ok"
    /\ \E q \in DOMAIN remote : ~ IsPrefix(Root, q)
    /\ Len(Recorded) > 0

----------------------------------------------------------------------------
(* Properties of cp *)

IsCp2 == cmd.verb = "cp" /\ Len(cmd.args) = 2
Src == cmd.args[1]
Dst == cmd.args[2]
Staging == <<basename(Src)>>
Has(o) == \E i \in 1..Len(trace) : trace[i].op = o
SameFile(e1, e2) == e1.kind = e2.kind /\ e1.data = e2.data /\ e1.mtime = e2.mtime

(* every entry of the tree at p can be read by the client *)
Readable(fs, p) ==
    /\ isdir(fs, p)
    /\ \A q \in DOMAIN fs : IsPrefix(p, q) => fs[q].mode # "---"

(* C4: cp([source, destination]) with a destination that does not exist   *)
(* leaves destination holding a subtree identical to source (same         *)
(* relative paths, file contents and modification times) and leaves       *)
(* source unchanged.                                                      *)
C4_DestinationHoldsCopy ==
    (/\ IsCp2
     /\ Dst \notin DOMAIN pre
     /\ Readable(pre, Src)
     /\ Staging \notin DOMAIN prelocal) =>
        /\ result = "ok"
        /\ \A q \in DOMAIN pre :
              /\ q \in DOMAIN remote /\ remote[q] = pre[q]
              /\ IsPrefix(Src, q) =>
                    /\ Rebase(q, Src, Dst) \in DOMAIN remote
                    /\ SameFile(remote[Rebase(q, Src, Dst)], pre[q])
        /\ \A r \in DOMAIN remote :
              IsPrefix(Dst, r) => Rebase(r, Dst, Src) \in DOMAIN pre

(* C5: once cp has created its staging directory, the staging directory   *)
(* and all its contents are gone when that cp returns or raises.          *)
C5_StagingRemoved ==
    (/\ cmd.verb = "cp"
     /\ \E i \in 1..Len(trace) : trace[i] = Event("os.mkdir", Staging, "ok")) =>
        \A q \in DOMAIN local : ~IsPrefix(Staging, q)

(* C6: cp([source, destination]) with a destination the connection        *)
(* reports as existing raises IOError after the existence test alone: no  *)
(* staging directory, no download, no remote write; remote and local      *)
(* state are as before.                                                   *)
C6_ExistingDestination ==
    (IsCp2 /\ exists(pre, Dst)) =>
        /\ result = "IOError"
        /\ trace = <<Event("exists", Dst, "ok")>>
        /\ remote = pre
        /\ local = prelocal

C6_Witness ==
    /\ IsCp2 /\ result = "IOError"
    /\ Dst \in DOMAIN pre
    /\ Readable(pre, Src) /\ Src # Dst
    /\ Staging \notin DOMAIN prelocal

(* C7: if the recursive download of cp raises, that error is what cp      *)
(* raises, nothing is called after the download (no upload), and the      *)
(* remote namespace is unchanged, destination still absent.               *)
DownloadRaised(i) == trace[i].op = "get_r.return" /\ trace[i].res # "ok"

C7_DownloadFailureAborts ==
    cmd.verb = "cp" =>
        \A i \in 1..Len(trace) :
            DownloadRaised(i) =>
                /\ result = trace[i].res
                /\ i = Len(trace)
                /\ ~Has("put_r") /\ ~Has("put") /\ ~Has("mkdir")
                /\ remote = pre
                /\ Dst \notin DOMAIN remote

C7_Witness ==
    /\ IsCp2
    /\ \E i \in 1..Len(trace) : DownloadRaised(i)
    /\ \E j \in 1..Len(trace) : trace[j].op = "get" /\ trace[j].res = "ok"

(* C8: the calls of one cp come in the order destination test, staging    *)
(* directory creation, download, upload, staging removal; every file is   *)
(* fetched inside the download and every remote write is made inside the  *)
(* upload, after the download has returned.                               *)
CpStages == <<"exists", "os.mkdir", "get_r", "get_r.return", "put_r", "put_r.return", "rmtree">>
IsStage(e) == InSeq(e.op, CpStages) /\ (e.op = "os.mkdir" => e.path = Staging)
Ops(events) == [i \in 1..Len(events) |-> events[i].op]
Between(i, first, last) ==
    /\ \E j \in 1..(i - 1) : trace[j].op = first
    /\ \A j \in 1..(i - 1) : trace[j].op # last

C8_CpOrder ==
    IsCp2 =>
        LET stages == Ops(SelectSeq(trace, IsStage))
        IN  /\ Len(stages) <= Len(CpStages)
            /\ stages = SubSeq(CpStages, 1, Len(stages))
            /\ \A i \in 1..Len(trace) :
                  /\ trace[i].op = "get" => Between(i, "get_r", "get_r.return")
                  /\ trace[i].op \in {"mkdir", "put"} =>
                        /\ Between(i, "put_r", "put_r.return")
                        /\ \E j \in 1..(i - 1) :
                              trace[j].op = "get_r.return" /\ trace[j].res = "ok"
                  /\ (trace[i].op \in {"get_r", "put_r", "rmtree"} /\ i > 1) =>
                        trace[i - 1].res = "ok"

C8_Witness ==
    /\ IsCp2
    /\ Has("put_r.return")
    /\ \E i \in 1..Len(trace) : trace[i].op \in {"mkdir", "put"}
    /\ Cardinality({i \in 1..Len(trace) : trace[i].op = "get" /\ trace[i].res = "ok"}) >= 2

(* C16 as stated: between commands the staging directory does not exist,  *)
(* so no cp is turned away at the creation of its staging directory         *)
(* because an earlier cp left one behind.                                   *)
C16_NoStagingBetweenCommands ==
    /\ DOMAIN local = {}
    /\ \A i \in 1..Len(trace) :
          trace[i].op = "os.mkdir" => trace[i].res # "FileExistsError"

(* the calls with which the last command matches event e *)
CallsOf(e) == {i \in 1..Len(trace) : trace[i] = e}

(* C20 as stated: a cp to a destination that does not exist makes, each    *)
(* exactly once and in this order: a recursive download of the source into  *)
(* the temporary directory itself, a remote mkdir of the destination, a     *)
(* recursive upload of the staged copy (the temporary directory joined      *)
(* with the source's basename) to the destination, and a recursive removal  *)
(* of that staged copy.                                                     *)
C20_CpCallSequence ==
    (IsCp2 /\ ~exists(pre, Dst)) =>
        LET download == [Event("get_r", Src, "ok") EXCEPT !.other = <<>>]
            make == Event("mkdir", Dst, "ok")
            upload == [Event("put_r", Dst, "ok") EXCEPT !.other = Staging]
            removal == Event("rmtree", Staging, "ok")
        IN  \E i, j, k, l \in 1..Len(trace) :
                /\ i < j /\ j < k /\ k < l
                /\ CallsOf(download) = {i}
                /\ CallsOf(make) = {j}
                /\ CallsOf(upload) = {k}
                /\ CallsOf(removal) = {l}

(* C23: the staging directory of cp is the temporary directory joined     *)
(* with the basename of source; it is made right after the existence test  *)
(* of destination and before any download; when making it fails because    *)
(* the path exists (and it fails whenever the path exists), cp raises that *)
(* error having made no other call, and                                    *)
(* the local files (the directory that was in the way among them) and the  *)
(* remote files are as before.                                             *)
C23_StagingMadeFirst ==
    (IsCp2 /\ ~exists(pre, Dst)) =>
        /\ Len(trace) >= 2
        /\ trace[2].op = "os.mkdir" /\ trace[2].path = <<basename(cmd.args[1])>>
        /\ \A i \in 1..Len(trace) :
              trace[i].op \in {"get_r", "get", "put_r", "put", "mkdir", "os.makedirs"} => i > 2
        /\ <<basename(cmd.args[1])>> \in DOMAIN prelocal => trace[2].res = "FileExistsError"
        /\ trace[2].res = "FileExistsError" =>
              /\ result = "FileExistsError"
              /\ Len(trace) = 2
              /\ local = prelocal
              /\ remote = pre
              /\ isdir(local, <<basename(cmd.args[1])>>) \/ isfile(local, <<basename(cmd.args[1])>>)

(* a cp that found its staging directory in the way *)
C23_Witness ==
    /\ IsCp2 /\ ~exists(pre, Dst)
    /\ result = "FileExistsError"
    /\ <<basename(cmd.args[1])>> \in DOMAIN prelocal

----------------------------------------------------------------------------
(* Properties of a session *)

(* the argument counts each command accepts *)
Accepted ==
    [verb \in {"ls", "chmod", "rmdir", "rm", "mkdir", "get", "cp", "history"} |->
        CASE verb = "ls" -> {0, 1}
          [] verb = "chmod" -> {2}
          [] verb = "get" -> {1, 2}
          [] verb = "cp" -> {2}
          [] verb = "history" -> {0}
          [] OTHER -> {1}]

WrongCount == cmd.verb \in DOMAIN Accepted /\ Len(cmd.args) \notin Accepted[cmd.verb]

C13_EveryCommandLogged ==
    cmd.verb \in {"ls", "chmod", "rmdir", "rm", "mkdir", "get", "put", "cp", "ping"} =>
        history = prehistory \o <<Word(cmd.verb)>> \o cmd.args \o <<NL>>

(* the commands that carry @log_history *)
LoggedVerbs == {"ls", "chmod", "rmdir", "rm", "mkdir", "get", "put"}

(* C14: within a session the history file only grows, one line per logged *)
(* command and in the order the commands were given: a logged command      *)
(* adds its line (the bare verb when it has no arguments) after the lines   *)
(* that were there; no command changes or drops what the file held        *)
(* before it; and history([]) returns exactly the lines of the file.        *)
C14_HistoryAppendOnly ==
    /\ cmd.verb \in LoggedVerbs =>
          /\ Lines(Strip(history))
                = Append(Lines(Strip(prehistory)), <<Word(cmd.verb)>> \o cmd.args)
          /\ Len(cmd.args) = 0 =>
                Lines(Strip(history))[Records(history)] = <<Word(cmd.verb)>>
    /\ cmd.verb \notin {"none", "__init__"} => IsPrefix(prehistory, history)
    /\ (cmd.verb = "history" /\ result = "ok") =>
          /\ Lines(output) = Lines(Strip(history))
          /\ Len(Lines(output)) = Records(history)

C14_Witness ==
    /\ cmd.verb = "history"
    /\ result = "ok"
    /\ Len(Lines(output)) = 2
    /\ Len(Lines(output)[1]) > 1
    /\ Len(Lines(output)[2]) = 1
    /\ Lines(output)[1][1] # Lines(output)[2][1]

(* C15: right after a session has been constructed, history([]) returns   *)
(* the empty text, whatever the session before it had logged in the same    *)
(* working directory.                                                       *)
C15_HistoryClearedAtStart ==
    /\ (cmd.verb = "__init__" /\ result = "ok") =>
          /\ HistoryBody(Begin, <<>>).err = "none"
          /\ HistoryBody(Begin, <<>>).output = <<>>
    /\ (cmd.verb = "history" /\ result = "ok" /\ sessions > 1) => output = <<>>

C15_Witness ==
    /\ cmd.verb = "__init__"
    /\ result = "ok"
    /\ Records(prehistory) > 1

(* what the last command raised: the exception's type and its text *)
Raised == <<result, message>>

(* what rmdir, rm and get raise for an argument list of the wrong length *)
UsageError(verb) ==
    LET st == CASE verb = "rmdir" -> RmdirBody(Begin, <<>>)
                [] verb = "rm" -> RmBody(Begin, <<>>)
                [] verb = "get" -> GetBody(Begin, <<>>)
    IN  <<st.err, st.msg>>

(* the last command was rmdir, rm or get with an accepted number of        *)
(* arguments, and its path was missing or of the wrong kind                 *)
KindError ==
    /\ cmd.verb \in {"rmdir", "rm", "get"}
    /\ ~WrongCount
    /\ IF cmd.verb = "rmdir" THEN ~isdir(pre, cmd.args[1])
       ELSE ~isfile(pre, cmd.args[1])

(* C18 as stated: for rmdir, rm and get, what is raised for a path that is *)
(* missing or of the wrong kind can be told from what the same verb raises  *)
(* for a wrong number of arguments.                                         *)
C18_KindErrorDistinct == KindError => Raised # UsageError(cmd.verb)

(* C18, amended: for get the two differ in type (IOError against           *)
(* TypeError); for rmdir both are TypeError and differ in their text only;  *)
(* for rm they are the same TypeError with the same text.                   *)
C18_KindErrorPerVerb ==
    KindError =>
        CASE cmd.verb = "get" ->
                result = "IOError" /\ UsageError("get")[1] = "TypeError"
          [] cmd.verb = "rmdir" ->
                /\ result = "TypeError"
                /\ UsageError("rmdir")[1] = "TypeError"
                /\ message # UsageError("rmdir")[2]
          [] cmd.verb = "rm" -> Raised = UsageError("rm")

C18_Witness ==
    /\ KindError
    /\ cmd.verb = "rm"
    /\ isdir(pre, cmd.args[1])
    /\ Raised = UsageError("rm")

(* C19 as stated: put with no argument at all, or with -t as its last      *)
(* argument, raises the usage error (TypeError) before anything is          *)
(* uploaded and before any call on the connection.                          *)
C19_PutUsageError ==
    (cmd.verb = "put"
        /\ (cmd.args = <<>> \/ cmd.args[Len(cmd.args)] = TargetFlag)) =>
            /\ result = "TypeError"
            /\ trace = <<>>
            /\ remote = pre


(* C24: a command of a decorated verb (ls, chmod, rmdir, rm, mkdir, get,    *)
(* put) leaves the history file as it was with exactly one record added at *)
(* the end, the record of that command, whether the command returned,      *)
(* raised a usage error before any remote call, or raised a remote error.  *)
C24_OneRecordWhateverHappens ==
    cmd.verb \in LoggedVerbs =>
        /\ history = prehistory \o HistoryRecord(cmd.verb, cmd.args)
        /\ Records(history) = Records(prehistory) + 1

(* a usage error with no remote call, after a remote error, each with its  *)
(* record in the file                                                      *)
C24_Witness ==
    /\ cmd.verb \in LoggedVerbs
    /\ result = "TypeError" /\ trace = <<>>
    /\ Records(prehistory) = 1
    /\ Records(history) = 2

IsHistory == cmd.verb = "history"

(* C26: history only reads: it makes no remote call and leaves the history *)
(* file, the remote files and the local files as they were; with no        *)
(* argument it returns the text of the file without the line ends at       *)
(* either end, with one or more arguments it raises TypeError; a           *)
(* history([]) right after a history([]) returns the same text.            *)
C26_HistoryIsPureQuery ==
    /\ [](IsHistory =>
            /\ history = prehistory
            /\ remote = pre /\ local = prelocal /\ cwd = precwd
            /\ trace = <<>>
            /\ cmd.args = <<>> => (result = "ok" /\ output = Strip(prehistory))
            /\ cmd.args # <<>> => result = "TypeError")
    /\ [][(/\ IsHistory /\ result = "ok"
           /\ cmd'.verb = "history" /\ result' = "ok") => output' = output]_vars

(* history has returned the two lines of a session *)
C26_Witness ==
    /\ IsHistory /\ result = "ok"
    /\ Len(Lines(output)) = 2
    /\ history = prehistory

IsMkdir1 == cmd.verb = "mkdir" /\ Len(cmd.args) = 1
CallsOp(o) == SelectSeq(trace, LAMBDA e : e.op = o)

(* C28: mkdir([p]) makes one creation call on the connection: makedirs     *)
(* with p and mode 775 when p has a separator (the mkdir calls that follow *)
(* are the ones makedirs makes, for p and the directories above it), mkdir *)
(* with p and mode 775 and no makedirs when it has none; when mkdir        *)
(* returns, p is a remote directory.                                       *)
C28_OneCreationCall ==
    IsMkdir1 =>
        LET p == cmd.args[1]
        IN  /\ trace # <<>>
            /\ trace[1].path = p /\ trace[1].other = Mode775
            /\ IF Len(p) > 1
               THEN /\ trace[1].op = "makedirs"
                    /\ Len(CallsOp("makedirs")) = 1
                    /\ \A i \in 2..Len(trace) :
                          /\ trace[i].op = "mkdir"
                          /\ IsPrefix(trace[i].path, p)
                          /\ trace[i].other = Mode775
               ELSE /\ trace[1].op = "mkdir"
                    /\ Len(trace) = 1
            /\ result = "ok" => isdir(remote, p)

(* a mkdir of a path two levels deep has made both levels *)
C28_Witness ==
    /\ IsMkdir1 /\ result = "ok"
    /\ cmd.args = <<PathAA>>
    /\ ~ exists(pre, PathA)
    /\ isdir(remote, PathA) /\ isdir(remote, PathAA)
    /\ Len(CallsOp("mkdir")) = 2

----------------------------------------------------------------------------
(* Properties of the transfers                                             *)

IsPut == cmd.verb = "put"
IsGet == cmd.verb = "get"

(* the positions of a put argument list that hold the flag, and those that *)
(* name a local path                                                       *)
FlagsOf(args) == {j \in 1..Len(args) : args[j] = TargetFlag}
SourcesOf(args) ==
    {i \in 1..Len(args) : args[i] # TargetFlag /\ (i = 1 \/ args[i - 1] # TargetFlag)}

(* the target in force at position i: the word after the last flag before  *)
(* it, NoPath when there is none                                           *)
TargetAt(args, i) ==
    LET before == {j \in FlagsOf(args) : j + 1 < i}
    IN  IF before = {} THEN NoPath
        ELSE args[(CHOOSE j \in before : \A k \in before : k <= j) + 1]

(* where put uploads the local path at position i *)
DestOf(args, i) ==
    IF TargetAt(args, i) = NoPath THEN <<basename(args[i])>>
    ELSE Append(TargetAt(args, i), basename(args[i]))

Uploads == SelectSeq(trace, LAMBDA e : e.op = "put")

(* the sources of a put, left to right *)
SourceSeq(args) ==
    LET RECURSIVE Upto(_)
        Upto(i) == IF i = 0 THEN <<>>
                   ELSE IF i \in SourcesOf(args) THEN Append(Upto(i - 1), i)
                   ELSE Upto(i - 1)
    IN  Upto(Len(args))

(* the places in the sequence of sources of a put that do not name a local *)
(* regular file                                                            *)
BadSources(args) ==
    {k \in 1..Len(SourceSeq(args)) : ~ OsIsFile(precwd, args[SourceSeq(args)[k]])}

(* nothing on the remote side is in the way of making the directory t:     *)
(* t is absent and what is there above it is a directory open to the       *)
(* client                                                                  *)
CanBeMade(fs, t) ==
    /\ t \notin DOMAIN fs
    /\ \A k \in 1..(Len(t) - 1) :
          SubSeq(t, 1, k) \in DOMAIN fs =>
              (fs[SubSeq(t, 1, k)].kind = "dir" /\ fs[SubSeq(t, 1, k)].mode = "rwx")

(* C21: put takes its arguments left to right, and a local file that       *)
(* follows -t <target> is uploaded to <target>/<basename>, the target      *)
(* directory being created if it is absent: after a put of local files     *)
(* into one target that was absent, with nothing in the way of making it,  *)
(* the target is a remote directory and every file is in it with the       *)
(* content and the modification time of the local file.                    *)
C21_TargetCreatedIfAbsent ==
    (/\ IsPut /\ Len(cmd.args) >= 3
     /\ cmd.args[1] = TargetFlag /\ FlagsOf(cmd.args) = {1}
     /\ BadSources(cmd.args) = {}
     /\ CanBeMade(pre, cmd.args[2])) =>
        /\ isdir(remote, cmd.args[2])
        /\ \A i \in SourcesOf(cmd.args) :
              /\ isfile(remote, DestOf(cmd.args, i))
              /\ remote[DestOf(cmd.args, i)].data = precwd[cmd.args[i]].data
              /\ remote[DestOf(cmd.args, i)].mtime = precwd[cmd.args[i]].mtime

(* What does hold of put, C21 read call by call: the k-th upload it issues *)
(* goes to <target>/<basename> when a -t <target> precedes the k-th local  *)
(* file and to <basename> in the remote working directory when none does;  *)
(* an upload into a target comes right after a mkdir of that target whose  *)
(* failure is ignored, and every mkdir is followed by its upload; when put *)
(* returns, every file is at its place with the content and the            *)
(* modification time of the local file, and every target is a directory.   *)
PutPlacesUploads ==
    IsPut =>
        LET args == cmd.args
            srcs == SourceSeq(args)
        IN  /\ Len(Uploads) <= Len(srcs)
            /\ \A k \in 1..Len(Uploads) : Uploads[k].path = DestOf(args, srcs[k])
            /\ \A n \in 1..Len(trace) :
                  /\ (trace[n].op = "put" /\ Len(trace[n].path) > 1)
                        => n > 1 /\ trace[n - 1].op = "mkdir"
                                 /\ trace[n - 1].path = Parent(trace[n].path)
                  /\ trace[n].op = "mkdir"
                        => n < Len(trace) /\ trace[n + 1].op = "put"
                                          /\ Parent(trace[n + 1].path) = trace[n].path
            /\ result = "ok" =>
                  \A i \in SourcesOf(args) :
                      /\ DestOf(args, i) \in DOMAIN remote
                      /\ remote[DestOf(args, i)].kind = "file"
                      /\ remote[DestOf(args, i)].data = precwd[args[i]].data
                      /\ remote[DestOf(args, i)].mtime = precwd[args[i]].mtime
                      /\ TargetAt(args, i) # NoPath => isdir(remote, TargetAt(args, i))


(* where get puts what it downloads *)
GetLocalPath(args) ==
    IF Len(args) = 1 THEN <<DOWNLOADS_DIRECTORY, basename(args[1])>>
    ELSE expanduser(args[2])

Downloads == SelectSeq(trace, LAMBDA e : e.op = "get")

(* C22: get of a remote path that is not an existing regular file raises   *)
(* IOError, issues no download and leaves the local files as they were;    *)
(* get of a regular file issues one download of it, touches no local path  *)
(* but the downloads directory entry named by the basename (one argument)  *)
(* or the given local path (two arguments), and when it returns the remote *)
(* content is there.                                                       *)
C22_GetDownloadsRegularFile ==
    (IsGet /\ Len(cmd.args) \in {1, 2}) =>
        LET src == cmd.args[1]
            dest == GetLocalPath(cmd.args)
        IN  IF ~ isfile(pre, src)
            THEN /\ result = "IOError"
                 /\ Downloads = <<>>
                 /\ cwd = precwd
                 /\ local = prelocal
            ELSE /\ Len(Downloads) = 1
                 /\ Downloads[1].path = src
                 /\ local = prelocal
                 /\ \A q \in (DOMAIN cwd \cup DOMAIN precwd) \ {dest} :
                       q \in DOMAIN cwd /\ q \in DOMAIN precwd /\ cwd[q] = precwd[q]
                 /\ result = "ok" =>
                       /\ dest \in DOMAIN cwd
                       /\ cwd[dest].kind = "file"
                       /\ cwd[dest].data = pre[src].data

(* a remote file two levels down has been downloaded to the downloads      *)
(* directory under its basename                                            *)
C22_Witness ==
    /\ IsGet /\ result = "ok"
    /\ cmd.args = <<PathBA>>
    /\ <<DOWNLOADS_DIRECTORY, "a">> \in DOMAIN cwd
    /\ <<DOWNLOADS_DIRECTORY, "a">> \notin DOMAIN precwd
    /\ cwd[<<DOWNLOADS_DIRECTORY, "a">>].data = pre[PathBA].data


(* C25: put stops at the first argument that is not a local regular file:  *)
(* no upload is issued for it or for any later argument; when the uploads  *)
(* before it went through, put raises IOError if it is a local directory   *)
(* and FileNotFoundError if it is no local path at all, the files uploaded *)
(* before it stay on the remote side and nothing shows up at the places of *)
(* the later ones.                                                         *)
C25_PutStopsAtFirstBadArgument ==
    (IsPut /\ BadSources(cmd.args) # {}) =>
        LET args == cmd.args
            srcs == SourceSeq(args)
            bad == CHOOSE k \in BadSources(args) : \A j \in BadSources(args) : k <= j
        IN  /\ Len(Uploads) <= bad - 1
            /\ (\A n \in 1..Len(Uploads) : Uploads[n].res = "ok") =>
                  /\ Len(Uploads) = bad - 1
                  /\ result = IF OsIsDir(precwd, args[srcs[bad]]) THEN "IOError"
                              ELSE "FileNotFoundError"
                  /\ \A k \in 1..(bad - 1) :
                        /\ DestOf(args, srcs[k]) \in DOMAIN remote
                        /\ remote[DestOf(args, srcs[k])].data = precwd[args[srcs[k]]].data
                  /\ \A k \in (bad + 1)..Len(srcs) :
                        DestOf(args, srcs[k]) \notin DOMAIN pre
                            => DestOf(args, srcs[k]) \notin DOMAIN remote

(* a put of a file, a directory and a file: the first is on the remote     *)
(* side, the last is not                                                   *)
C25_Witness ==
    /\ IsPut /\ cmd.args = <<PathA, LocalDir, PathB>>
    /\ result = "IOError"
    /\ PathA \notin DOMAIN pre /\ isfile(remote, PathA)
    /\ PathB \notin DOMAIN remote


----------------------------------------------------------------------------
(* Properties of the connection                                            *)

IsInit == cmd.verb = "__init__"
Host == cmd.args[1][1]
Connections == CallsOp("Connection")

(* C29: a session opened to a host that has an entry in known_hosts is     *)
(* connected with host-key checking and leaves known_hosts as it was; a    *)
(* session opened to a host with no entry is connected without checking,   *)
(* and the key is added and known_hosts saved after the connection has     *)
(* been made and only then: when the session is not opened, whatever the   *)
(* reason, known_hosts is as it was.                                       *)
C29_TrustOnFirstUse ==
    IsInit =>
        /\ Len(Connections) <= 1
        /\ \A i \in 1..Len(trace) :
              trace[i].op = "Connection" =>
                  trace[i].other[1] = (IF Known(prehosts, Host) THEN Checking[1]
                                       ELSE NoChecking[1])
        /\ Known(prehosts, Host) =>
              /\ known_hosts = prehosts
              /\ CallsOp("hostkeys.add") = <<>> /\ CallsOp("hostkeys.save") = <<>>
        /\ (~ Known(prehosts, Host) /\ result = "ok") =>
              /\ Known(known_hosts, Host)
              /\ \A h \in DOMAIN prehosts : Known(known_hosts, h) /\ known_hosts[h] = prehosts[h]
              /\ DOMAIN known_hosts = DOMAIN prehosts \cup {Host}
              /\ \E i, j, k \in 1..Len(trace) :
                    /\ i < j /\ j < k
                    /\ trace[i].op = "Connection" /\ trace[i].res = "ok"
                    /\ trace[j].op = "hostkeys.add" /\ trace[j].other = <<known_hosts[Host]>>
                    /\ trace[k].op = "hostkeys.save"
        /\ result # "ok" =>
              /\ known_hosts = prehosts
              /\ CallsOp("hostkeys.add") = <<>> /\ CallsOp("hostkeys.save") = <<>>

(* a session opened to a host that was not on file, after which the host   *)
(* is on file                                                              *)
C29_Witness ==
    /\ IsInit /\ result = "ok"
    /\ ~ Known(prehosts, Host)
    /\ Known(known_hosts, Host)
    /\ Host # "h1"

====
